---- MODULE Spec2Model ----
(***************************************************************************)
(* fastapi-todo: the JWT / CSRF session layer (auth_utils.py), the account *)
(* and task stores (database.py) and the request handlers                  *)
(* (routers/route_auth.py, routers/route_todo.py).                         *)
(*                                                                         *)
(* Strings that the code takes apart are sequences of words: a cookie      *)
(* "Bearer <jwt>" is <<[text |-> "Bearer"], jwt>>, the empty string is     *)
(* <<>>.  An optional value (a cookie or header that may be absent, None)  *)
(* is a sequence of length 0 or 1.  The clock counts ticks, TicksPerSec to *)
(* the second, because datetime.utcnow() has sub-second resolution while   *)
(* the "exp" and "iat" claims of a JWT are whole seconds.                  *)
(*                                                                         *)
(* Specifications:                                                         *)
(*   Spec         one client and the server, a request at a time, every    *)
(*                handler from its start to its response                   *)
(*   SpecSession  the endpoints of a session, the client keeping a copy of *)
(*                a token it received                                      *)
(*   SpecDb       the functions of the task store, one call at a time      *)
(*   SpecSignup   concurrent db_signup coroutines, interleaved at awaits   *)
(*   SpecTodo     concurrent db_update_todo / db_delete_todo coroutines    *)
(***************************************************************************)
EXTENDS Integers, Sequences, FiniteSets, TLC

VARIABLES
    now,              \* datetime.utcnow(), in ticks
    expInclusive,     \* the installed PyJWT rejects exp <= now (TRUE) or exp < int(now) (FALSE)
    collection_user,  \* database.user: sequence of documents
    collection_todo,  \* database.todo: sequence of documents
    next_oid,         \* the next ObjectId the todo collection hands out
    jar,              \* the client's cookie jar
    req,              \* the request in flight, once handled
    before,           \* both collections as they were when req arrived
    minted,           \* the token encode_jwt produced while handling req, if any
    resp,             \* the response to req, on its way to the client
    kept,             \* an access token the client copied from a response, if any
    calls             \* the database coroutines in progress: function, arguments,
                      \* position and locals of each

vars == <<now, expInclusive, collection_user, collection_todo, next_oid,
          jar, req, before, minted, resp, kept, calls>>

----------------------------------------------------------------------------
(* Bounds of the model *)

TicksPerSec == 2
MaxEpoch == 1
MaxTodos == 1

(* Program constants *)

ExpMinutes == 5
MinPasswordLen == 6
FindLimit == 100

JWT_KEY == "JWT_KEY"
CSRF_KEY == "CSRF_KEY"
OtherKey == "another secret"

Emails == {"a@x.com", "b@x.com"}
Letters == <<"s", "e", "c", "r", "e", "t", "1", "2", "3">>
Password(n) == SubSeq(Letters, 1, n)
Passwords ==
    {Password(n) : n \in {0, MinPasswordLen - 1, MinPasswordLen, MinPasswordLen + 1}}
CsrfNonces == {1}
Salts == {1}
Titles == {"t1", "t2"}

None == <<>>
Some(v) == <<v>>
EmptyStr == <<>>
Text(s) == [text |-> s]

Min(a, b) == IF a < b THEN a ELSE b

----------------------------------------------------------------------------
(* The clock *)

ExpSeconds == ExpMinutes * 60
Seconds(t) == t \div TicksPerSec

\* The instants at which the clock is read: around each multiple of the
\* token lifetime, one tick before it, at it, one tick and one second after.
Instants ==
    {e * ExpSeconds * TicksPerSec + j :
        e \in 0..MaxEpoch, j \in {-1, 0, 1, TicksPerSec}} \cap Nat

----------------------------------------------------------------------------
(* auth_utils.py *)

Raise(status, detail) == [ok |-> FALSE, status |-> status, detail |-> detail]
\* an exception no handler catches: the server answers 500
Fault(exception) ==
    [ok |-> FALSE, status |-> 500, detail |-> "Internal Server Error",
     exception |-> exception]

\* the salted one-way hash of passlib and its verification
generate_hashed_pw(password, salt) == [bcrypt |-> password, salt |-> salt]
verify_pw(plain_pw, hashed_pw) == hashed_pw.bcrypt = plain_pw

\* jwt.encode turns the datetimes of "exp" and "iat" into whole seconds
encode_jwt(email, t) ==
    [sub |-> email,
     iat |-> Seconds(t),
     exp |-> Seconds(t) + ExpSeconds,
     key |-> JWT_KEY]

IsJwt(value) == Len(value) = 1 /\ "exp" \in DOMAIN value[1]

ExpiredSignature_with_leeway(payload, t) == payload.exp + 1 < Seconds(t)

\* PyJWT's check of the "exp" claim, as the installed release makes it
ExpiredSignature(payload, t) ==
    IF expInclusive THEN payload.exp * TicksPerSec <= t
                    ELSE payload.exp < Seconds(t)

decode_jwt_exp_first(token, t) ==
    IF ~IsJwt(token) THEN Raise(401, "JWT is not valid")
    ELSE IF ExpiredSignature(token[1], t) THEN Raise(401, "The JWT has expired")
    ELSE IF token[1].key # JWT_KEY THEN Raise(401, "JWT is not valid")
    ELSE [ok |-> TRUE, subject |-> token[1].sub]

decode_jwt_never_expires(token, t) ==
    IF ~IsJwt(token) THEN Raise(401, "JWT is not valid")
    ELSE IF token[1].key # JWT_KEY THEN Raise(401, "JWT is not valid")
    ELSE [ok |-> TRUE, subject |-> token[1].sub]

\* jwt.decode: structure, then signature, then the claims
decode_jwt(token, t) ==
    IF ~IsJwt(token) THEN Raise(401, "JWT is not valid")
    ELSE IF token[1].key # JWT_KEY THEN Raise(401, "JWT is not valid")
    ELSE IF ExpiredSignature(token[1], t) THEN Raise(401, "The JWT has expired")
    ELSE [ok |-> TRUE, subject |-> token[1].sub]

\* str.partition(" ")[2]: what follows the first space
partition(token) == IF Len(token) >= 1 THEN Tail(token) ELSE EmptyStr

verify_jwt_current_cookie_only(request, t) ==
    LET token == request.cookies.access_token IN
    IF token = None \/ token[1] = EmptyStr
    THEN Raise(401, "JWT doesn't exist: may not set yet or deleted")
    ELSE IF token # jar.access_token THEN Raise(401, "JWT is not valid")
    ELSE decode_jwt(partition(token[1]), t)

verify_jwt_shape_checked(request, t) ==
    LET token == request.cookies.access_token IN
    IF token = None \/ token[1] = EmptyStr \/ partition(token[1]) = EmptyStr
    THEN Raise(401, "JWT doesn't exist: may not set yet or deleted")
    ELSE decode_jwt(partition(token[1]), t)

verify_jwt(request, t) ==
    LET token == request.cookies.access_token IN
    IF token = None \/ token[1] = EmptyStr
    THEN Raise(401, "JWT doesn't exist: may not set yet or deleted")
    ELSE decode_jwt(partition(token[1]), t)

verify_update_jwt_stale_clock(request, t) ==
    LET v == verify_jwt(request, t) IN
    IF ~v.ok THEN v
    ELSE [ok |-> TRUE, subject |-> v.subject, new_token |-> encode_jwt(v.subject, 0)]

verify_update_jwt(request, t) ==
    LET v == verify_jwt(request, t) IN
    IF ~v.ok THEN v
    ELSE [ok |-> TRUE, subject |-> v.subject, new_token |-> encode_jwt(v.subject, t)]

----------------------------------------------------------------------------
(* fastapi_csrf_protect, as auth_utils.py and route_auth.py call it *)

Plain(n) == [csrf |-> n]
Signed(n, secret) == [csrf |-> n, signed_by |-> secret]

\* CsrfProtect.generate_csrf_tokens: a random token and its signed form
generate_csrf_tokens(n) == [csrf_token |-> Plain(n), signed_token |-> Signed(n, CSRF_KEY)]

\* the application's handler of CsrfProtectError
csrf_protect_exception_handler(error) == Raise(401, error)

get_csrf_from_headers(headers) ==
    IF headers.csrf = None THEN csrf_protect_exception_handler("CsrfMissing")
    ELSE [ok |-> TRUE, token |-> headers.csrf[1]]

\* validate_csrf is handed the header's token and nothing else: it can only
\* check that this one value carries a signature made with the CSRF secret
validate_csrf(csrf_token) ==
    IF "signed_by" \in DOMAIN csrf_token /\ csrf_token.signed_by = CSRF_KEY
    THEN [ok |-> TRUE]
    ELSE csrf_protect_exception_handler("CsrfInvalid")

\* the two lines every CSRF-protected handler starts with
check_csrf(request) ==
    LET h == get_csrf_from_headers(request.headers) IN
    IF ~h.ok THEN h ELSE validate_csrf(h.token)

CsrfProtect == "CsrfProtect"
MissingArg == "missing"

verify_csrf_update_jwt_identity_first(request, csrf_protect, t) ==
    IF csrf_protect = MissingArg THEN Fault("TypeError")
    ELSE LET v == verify_jwt(request, t) IN
         IF ~v.ok THEN v
         ELSE LET c == check_csrf(request) IN
              IF ~c.ok THEN c
              ELSE [ok |-> TRUE, new_token |-> encode_jwt(v.subject, t)]

verify_csrf_update_jwt_no_csrf(request, csrf_protect, t) ==
    IF csrf_protect = MissingArg THEN Fault("TypeError")
    ELSE LET v == verify_jwt(request, t) IN
         IF ~v.ok THEN v
         ELSE [ok |-> TRUE, new_token |-> encode_jwt(v.subject, t)]

\* calling it without csrf_protect is a TypeError before its body runs
verify_csrf_update_jwt(request, csrf_protect, t) ==
    IF csrf_protect = MissingArg THEN Fault("TypeError")
    ELSE LET c == check_csrf(request) IN
         IF ~c.ok THEN c
         ELSE LET v == verify_jwt(request, t) IN
              IF ~v.ok THEN v
              ELSE [ok |-> TRUE, new_token |-> encode_jwt(v.subject, t)]

----------------------------------------------------------------------------
(* database.py *)

Str(oid) == [hex |-> oid]
IsObjectId(id) == "hex" \in DOMAIN id

todo_serializer(todo) ==
    [id |-> Str(todo._id), title |-> todo.title, description |-> todo.description]

user_serializer(user) == [id |-> Str(user._id), email |-> user.email]

\* collection.find_one({key: value}): the first matching document, or None
find_one(collection, key, value) ==
    LET hits == SelectSeq(collection, LAMBDA doc : doc[key] = value) IN
    IF hits = <<>> THEN None ELSE Some(Head(hits))

Value(v) == [kind |-> "value", value |-> v]
False == [kind |-> "False"]
True == [kind |-> "True"]
NoReturn == [kind |-> "None"]
InvalidId == [kind |-> "InvalidId"]
Truthy(res) == res.kind \in {"value", "True"}

Db(res, collection) == [res |-> res, collection |-> collection]

db_create_todo(data, todos, oid) ==
    LET doc == [_id |-> oid, title |-> data.title, description |-> data.description]
        inserted == Append(todos, doc)
        new_todo == find_one(inserted, "_id", oid)
    IN  IF new_todo # None THEN Db(Value(todo_serializer(new_todo[1])), inserted)
        ELSE Db(False, inserted)

db_find_todo_all(todos) ==
    LET todo_list == SubSeq(todos, 1, Min(FindLimit, Len(todos))) IN
    IF todo_list # <<>>
    THEN Db(Value([i \in 1..Len(todo_list) |-> todo_serializer(todo_list[i])]), todos)
    ELSE Db(False, todos)

db_find_todo_by_id(id, todos) ==
    IF ~IsObjectId(id) THEN Db(InvalidId, todos)
    ELSE LET todo == find_one(todos, "_id", id.hex) IN
         IF todo # None THEN Db(Value(todo_serializer(todo[1])), todos)
         ELSE Db(False, todos)

db_update_todo(id, data, todos) ==
    IF ~IsObjectId(id) THEN Db(InvalidId, todos)
    ELSE LET todo == find_one(todos, "_id", id.hex) IN
         IF todo = None THEN Db(False, todos)
         ELSE LET set(d) == IF d._id = id.hex
                            THEN [d EXCEPT !.title = data.title,
                                           !.description = data.description]
                            ELSE d
                  updated == [i \in 1..Len(todos) |-> set(todos[i])]
                  modified_count == IF updated # todos THEN 1 ELSE 0
              IN  IF modified_count > 0
                  THEN Db(Value(todo_serializer(
                           find_one(updated, "_id", id.hex)[1])), updated)
                  ELSE Db(NoReturn, updated)

db_delete_todo(id, todos) ==
    IF ~IsObjectId(id) THEN Db(InvalidId, todos)
    ELSE LET todo == find_one(todos, "_id", id.hex) IN
         IF todo = None THEN Db(False, todos)
         ELSE LET remaining == SelectSeq(todos, LAMBDA d : d._id # id.hex)
                  deleted_count == Len(todos) - Len(remaining)
              IN  IF deleted_count > 0 THEN Db(True, remaining)
                  ELSE Db(NoReturn, remaining)

PasswordRejected_off_by_one(password) ==
    password = EmptyStr \/ Len(password) <= MinPasswordLen

PasswordRejected(password) ==
    password = EmptyStr \/ Len(password) < MinPasswordLen

db_signup_password_first(data, users, salt) ==
    IF PasswordRejected(data.password)
    THEN Db(Raise(400, "Password too short or Password is too short"), users)
    ELSE IF find_one(users, "email", data.email) # None
    THEN Db(Raise(400, "Email is already taken or Password is too short"), users)
    ELSE LET doc == [_id |-> Len(users) + 1, email |-> data.email,
                     password |-> generate_hashed_pw(data.password, salt)]
         IN  Db([ok |-> TRUE, value |-> user_serializer(doc)], Append(users, doc))

db_signup(data, users, salt) ==
    LET overlap_user == find_one(users, "email", data.email) IN
    IF overlap_user # None
    THEN Db(Raise(400, "Email is already taken or Password is too short"), users)
    ELSE IF PasswordRejected(data.password)
    THEN Db(Raise(400, "Password too short or Password is too short"), users)
    ELSE LET doc == [_id |-> Len(users) + 1, email |-> data.email,
                     password |-> generate_hashed_pw(data.password, salt)]
             inserted == Append(users, doc)
             new_user == find_one(inserted, "_id", doc._id)
         IN  Db([ok |-> TRUE, value |-> user_serializer(new_user[1])], inserted)

db_login_names_unknown_email(data, users, t) ==
    LET user == find_one(users, "email", data.email) IN
    IF user = None THEN Raise(401, "Unknown email")
    ELSE IF ~verify_pw(data.password, user[1].password)
    THEN Raise(401, "Invalid email or password")
    ELSE [ok |-> TRUE, token |-> encode_jwt(user[1].email, t)]

db_login(data, users, t) ==
    LET user == find_one(users, "email", data.email) IN
    IF user = None \/ ~verify_pw(data.password, user[1].password)
    THEN Raise(401, "Invalid email or password")
    ELSE [ok |-> TRUE, token |-> encode_jwt(user[1].email, t)]

----------------------------------------------------------------------------
(* Responses.  A handler that raises loses what it put on its Response     *)
(* parameter: the error response is built anew, without its cookies.       *)

Bearer(token) == <<Text("Bearer"), token>>

NoCookies == [access_token |-> None, csrf |-> None]
SetCsrf(signed_token) == [set |-> signed_token]
UnsetCsrf == [unset |-> TRUE]

Response(status, body, cookies) ==
    [status |-> status, detail |-> "", body |-> Some(body), cookies |-> cookies]

ErrorResponse(e) ==
    [status |-> e.status, detail |-> e.detail, body |-> None, cookies |-> NoCookies]

Out(response, token, collection) ==
    [resp |-> response, minted |-> token, collection |-> collection]

----------------------------------------------------------------------------
(* routers/route_auth.py *)

get_csrf_token(n) ==
    LET pair == generate_csrf_tokens(n) IN
    Response(200, [csrf_token |-> pair.csrf_token],
             [access_token |-> None, csrf |-> Some(SetCsrf(pair.signed_token))])

signup(request, users, salt) ==
    LET c == check_csrf(request) IN
    IF ~c.ok THEN Out(ErrorResponse(c), None, users)
    ELSE LET db == db_signup(request.user, users, salt) IN
         IF ~db.res.ok THEN Out(ErrorResponse(db.res), None, db.collection)
         ELSE Out(Response(200, db.res.value,
                           [access_token |-> None, csrf |-> Some(UnsetCsrf)]),
                  None, db.collection)

login(request, users, t) ==
    LET c == check_csrf(request) IN
    IF ~c.ok THEN Out(ErrorResponse(c), None, users)
    ELSE LET l == db_login(request.user, users, t) IN
         IF ~l.ok THEN Out(ErrorResponse(l), None, users)
         ELSE Out(Response(200, [message |-> "Successfully logged-in"],
                           [access_token |-> Some(Bearer(l.token)),
                            csrf |-> Some(UnsetCsrf)]),
                  Some(l.token), users)

logout_keeps_identity(request) ==
    LET c == check_csrf(request) IN
    IF ~c.ok THEN ErrorResponse(c)
    ELSE Response(200, [message |-> "Successfully logged-out"],
                  [access_token |-> None, csrf |-> Some(UnsetCsrf)])

logout(request) ==
    LET c == check_csrf(request) IN
    IF ~c.ok THEN ErrorResponse(c)
    ELSE Response(200, [message |-> "Successfully logged-out"],
                  [access_token |-> Some(EmptyStr), csrf |-> Some(UnsetCsrf)])

get_user_refresh_jwt(request, t) ==
    LET a == verify_update_jwt(request, t) IN
    IF ~a.ok THEN Out(ErrorResponse(a), None, None)
    ELSE Out(Response(200, [email |-> a.subject],
                      [access_token |-> Some(Bearer(a.new_token)), csrf |-> None]),
             Some(a.new_token), None)

----------------------------------------------------------------------------
(* routers/route_todo.py *)

Rotated(new_token) == [access_token |-> Some(Bearer(new_token)), csrf |-> None]

create_todo_store_first(request, todos, oid, t) ==
    LET db == db_create_todo(request.data, todos, oid)
        a == verify_csrf_update_jwt(request, CsrfProtect, t)
    IN  IF ~a.ok THEN Out(ErrorResponse(a), None, db.collection)
        ELSE Out(Response(201, db.res.value, Rotated(a.new_token)),
                 Some(a.new_token), db.collection)

create_todo(request, todos, oid, t) ==
    LET a == verify_csrf_update_jwt(request, CsrfProtect, t) IN
    IF ~a.ok THEN Out(ErrorResponse(a), None, todos)
    ELSE LET db == db_create_todo(request.data, todos, oid) IN
         IF Truthy(db.res)
         THEN Out(Response(201, db.res.value, Rotated(a.new_token)),
                  Some(a.new_token), db.collection)
         ELSE Out(ErrorResponse(Raise(404, "Failed to create task")),
                  Some(a.new_token), db.collection)

get_todo(request, todos, t) ==
    LET a == verify_jwt(request, t) IN
    IF ~a.ok THEN ErrorResponse(a)
    ELSE LET db == db_find_todo_all(todos) IN
         IF Truthy(db.res) THEN Response(200, db.res.value, NoCookies)
         ELSE ErrorResponse(Raise(404, "Task does not exist"))

get_single_todo(request, todos, t) ==
    LET a == verify_update_jwt(request, t) IN
    IF ~a.ok THEN Out(ErrorResponse(a), None, todos)
    ELSE LET db == db_find_todo_by_id(request.id, todos) IN
         IF db.res = InvalidId
         THEN Out(ErrorResponse(Fault("InvalidId")), Some(a.new_token), todos)
         ELSE IF Truthy(db.res)
         THEN Out(Response(200, db.res.value, Rotated(a.new_token)),
                  Some(a.new_token), todos)
         ELSE Out(ErrorResponse(Raise(404, "Task ID: {id} does not exist")),
                  Some(a.new_token), todos)

\* update_todo and delete_todo call verify_csrf_update_jwt(request): the
\* csrf_protect argument is missing
update_todo(request, todos, t) ==
    LET a == verify_csrf_update_jwt(request, MissingArg, t) IN
    IF ~a.ok THEN Out(ErrorResponse(a), None, todos)
    ELSE LET db == db_update_todo(request.id, request.data, todos) IN
         IF db.res = InvalidId
         THEN Out(ErrorResponse(Fault("InvalidId")), Some(a.new_token), todos)
         ELSE IF Truthy(db.res)
         THEN Out(Response(200, db.res.value, Rotated(a.new_token)),
                  Some(a.new_token), db.collection)
         ELSE Out(ErrorResponse(Raise(404, "Failed to update task")),
                  Some(a.new_token), db.collection)

delete_todo(request, todos, t) ==
    LET a == verify_csrf_update_jwt(request, MissingArg, t) IN
    IF ~a.ok THEN Out(ErrorResponse(a), None, todos)
    ELSE LET db == db_delete_todo(request.id, todos) IN
         IF db.res = InvalidId
         THEN Out(ErrorResponse(Fault("InvalidId")), Some(a.new_token), todos)
         ELSE IF Truthy(db.res)
         THEN Out(Response(200, [message |-> "Deletion of the task is completed"],
                           Rotated(a.new_token)),
                  Some(a.new_token), db.collection)
         ELSE Out(ErrorResponse(Raise(404, "Failed to delete task")),
                  Some(a.new_token), db.collection)

----------------------------------------------------------------------------
(* The client, and what a request may carry *)

\* a token signed with a secret that is not the server's
Forged == [sub |-> "a@x.com", iat |-> 0, exp |-> ExpSeconds, key |-> OtherKey]

\* the access_token cookie of a request: the jar's, none, one without the
\* "Bearer <token>" shape ("garbage" has no space), one carrying the forged
\* token, or the token kept aside
AccessCookies ==
    {jar.access_token, None, Some(<<Text("garbage")>>), Some(Bearer(Forged))}
        \cup {Some(Bearer(kept[i])) : i \in 1..Len(kept)}

\* a cookie "Bearer garbage": the shape, but no JWT after the space
NoJwtCookies == {Some(Bearer(Text("garbage")))}

\* the X-CSRF-Token header of a request: none, the value /api/csrftoken
\* returns in its body, or the signed value it sets as the cookie
CsrfHeaders ==
    {None}
        \cup {Some(Plain(n)) : n \in CsrfNonces}
        \cup {Some(Signed(n, CSRF_KEY)) : n \in CsrfNonces}

TodoIds == {Str(i) : i \in 1..MaxTodos} \cup {Text("not an ObjectId")}
TodoBodies == [title : Titles, description : {"d"}]
NewTodos == [title : {"t1"}, description : {"d"}]
UserBodies == [email : Emails, password : Passwords]
NewUsers == [email : {"a@x.com"}, password : Passwords]

NoUser == [email |-> "", password |-> EmptyStr]
NoId == Text("")
NoData == [title |-> "", description |-> ""]

Request(endpoint, access_token, csrf_header, user, id, data) ==
    [endpoint |-> endpoint,
     at |-> now,
     cookies |-> [access_token |-> access_token, csrf |-> jar.csrf],
     headers |-> [csrf |-> csrf_header],
     user |-> user, id |-> id, data |-> data]

\* the browser stores the cookies of a response
store_cookies(cookies, response) ==
    [access_token |-> IF response.cookies.access_token # None
                      THEN response.cookies.access_token
                      ELSE cookies.access_token,
     csrf |-> IF response.cookies.csrf = None THEN cookies.csrf
              ELSE IF "set" \in DOMAIN response.cookies.csrf[1]
              THEN Some(response.cookies.csrf[1].set)
              ELSE None]

NoRequest ==
    [endpoint |-> "", at |-> 0, cookies |-> NoCookies, headers |-> [csrf |-> None],
     user |-> NoUser, id |-> NoId, data |-> NoData]
NoResponse == [status |-> 0, detail |-> "", body |-> None, cookies |-> NoCookies]
Nothing == [collection_user |-> <<>>, collection_todo |-> <<>>]

Idle == req = NoRequest

\* the server handles a request of the client and answers it
Serve(request, response, token) ==
    /\ Idle
    /\ req' = request
    /\ before' = [collection_user |-> collection_user,
                  collection_todo |-> collection_todo]
    /\ resp' = response
    /\ minted' = token
    /\ UNCHANGED <<now, expInclusive, jar, kept, calls>>

----------------------------------------------------------------------------
(* The state machine: one action per endpoint, and the passing of time *)

Init ==
    /\ now = 0
    /\ expInclusive \in BOOLEAN
    /\ collection_user = <<>>
    /\ collection_todo = <<>>
    /\ next_oid = 1
    /\ jar = NoCookies
    /\ req = NoRequest
    /\ before = Nothing
    /\ minted = None
    /\ resp = NoResponse
    /\ kept = None
    /\ calls = <<>>

\* time passes between two requests
Tick ==
    /\ Idle
    /\ \E t \in Instants : t > now /\ now' = t
    /\ UNCHANGED <<expInclusive, collection_user, collection_todo, next_oid,
                   jar, req, before, minted, resp, kept, calls>>

GetCsrfToken ==
    \E n \in CsrfNonces :
        /\ Serve(Request("get_csrf_token", jar.access_token, None, NoUser, NoId, NoData),
                 get_csrf_token(n), None)
        /\ UNCHANGED <<collection_user, collection_todo, next_oid>>

Signup ==
    \E h \in CsrfHeaders, user \in NewUsers, salt \in Salts :
        LET request == Request("signup", jar.access_token, h, user, NoId, NoData)
            out == signup(request, collection_user, salt)
        IN  /\ Serve(request, out.resp, out.minted)
            /\ collection_user' = out.collection
            /\ UNCHANGED <<collection_todo, next_oid>>

Login ==
    \E h \in CsrfHeaders, user \in UserBodies :
        LET request == Request("login", jar.access_token, h, user, NoId, NoData)
            out == login(request, collection_user, now)
        IN  /\ Serve(request, out.resp, out.minted)
            /\ UNCHANGED <<collection_user, collection_todo, next_oid>>

Logout ==
    \E h \in CsrfHeaders :
        LET request == Request("logout", jar.access_token, h, NoUser, NoId, NoData)
        IN  /\ Serve(request, logout(request), None)
            /\ UNCHANGED <<collection_user, collection_todo, next_oid>>

GetUserRefreshJwt ==
    \E c \in AccessCookies :
        LET request == Request("get_user_refresh_jwt", c, None, NoUser, NoId, NoData)
            out == get_user_refresh_jwt(request, now)
        IN  /\ Serve(request, out.resp, out.minted)
            /\ UNCHANGED <<collection_user, collection_todo, next_oid>>

CreateTodo ==
    /\ next_oid <= MaxTodos
    /\ \E c \in AccessCookies, h \in CsrfHeaders, data \in NewTodos :
        LET request == Request("create_todo", c, h, NoUser, NoId, data)
            out == create_todo(request, collection_todo, next_oid, now)
        IN  /\ Serve(request, out.resp, out.minted)
            /\ collection_todo' = out.collection
            /\ next_oid' = IF out.collection # collection_todo
                           THEN next_oid + 1 ELSE next_oid
            /\ UNCHANGED collection_user

GetTodo ==
    \E c \in AccessCookies \cup NoJwtCookies :
        LET request == Request("get_todo", c, None, NoUser, NoId, NoData)
        IN  /\ Serve(request, get_todo(request, collection_todo, now), None)
            /\ UNCHANGED <<collection_user, collection_todo, next_oid>>

GetSingleTodo ==
    \E c \in AccessCookies, id \in TodoIds :
        LET request == Request("get_single_todo", c, None, NoUser, id, NoData)
            out == get_single_todo(request, collection_todo, now)
        IN  /\ Serve(request, out.resp, out.minted)
            /\ UNCHANGED <<collection_user, collection_todo, next_oid>>

UpdateTodo ==
    \E c \in AccessCookies, h \in CsrfHeaders, id \in TodoIds, data \in TodoBodies :
        LET request == Request("update_todo", c, h, NoUser, id, data)
            out == update_todo(request, collection_todo, now)
        IN  /\ Serve(request, out.resp, out.minted)
            /\ collection_todo' = out.collection
            /\ UNCHANGED <<collection_user, next_oid>>

DeleteTodo ==
    \E c \in AccessCookies, h \in CsrfHeaders, id \in TodoIds :
        LET request == Request("delete_todo", c, h, NoUser, id, NoData)
            out == delete_todo(request, collection_todo, now)
        IN  /\ Serve(request, out.resp, out.minted)
            /\ collection_todo' = out.collection
            /\ UNCHANGED <<collection_user, next_oid>>

\* the client receives the response and stores its cookies
Receive ==
    /\ ~Idle
    /\ jar' = store_cookies(jar, resp)
    /\ req' = NoRequest
    /\ before' = Nothing
    /\ minted' = None
    /\ resp' = NoResponse
    /\ UNCHANGED <<now, expInclusive, collection_user, collection_todo, next_oid,
                   kept, calls>>

Next ==
    \/ Tick
    \/ Receive
    \/ GetCsrfToken
    \/ Signup
    \/ Login
    \/ Logout
    \/ GetUserRefreshJwt
    \/ CreateTodo
    \/ GetTodo
    \/ GetSingleTodo
    \/ UpdateTodo
    \/ DeleteTodo

Spec == Init /\ [][Next]_vars

----------------------------------------------------------------------------
(* What the claims speak about *)

Served(endpoints) == ~Idle /\ req.endpoint \in endpoints

CsrfPassed == check_csrf(req).ok
IdentityPassed == verify_jwt(req, req.at).ok

\* the token a request carries in a cookie of the shape "Bearer <jwt>"
CarriesJwt ==
    /\ req.cookies.access_token # None
    /\ Len(req.cookies.access_token[1]) = 2
    /\ IsJwt(partition(req.cookies.access_token[1]))
CarriedJwt == req.cookies.access_token[1][2]

VerifyingEndpoints == {"get_user_refresh_jwt", "get_todo", "get_single_todo"}
RotatingEndpoints == {"get_user_refresh_jwt", "get_single_todo", "create_todo",
                      "update_todo", "delete_todo"}
TodoWriters == {"create_todo", "update_todo", "delete_todo"}
CsrfProtected == {"signup", "login", "logout", "create_todo", "update_todo",
                  "delete_todo"}

StoresUnchanged ==
    /\ collection_user = before.collection_user
    /\ collection_todo = before.collection_todo

\* the response of the server to `request`, the collections being users and todos
respond(request, users, todos, oid) ==
    CASE request.endpoint = "signup" -> signup(request, users, 1).resp
      [] request.endpoint = "login" -> login(request, users, request.at).resp
      [] request.endpoint = "logout" -> logout(request)
      [] request.endpoint = "get_user_refresh_jwt" ->
            get_user_refresh_jwt(request, request.at).resp
      [] request.endpoint = "create_todo" ->
            create_todo(request, todos, oid, request.at).resp
      [] request.endpoint = "get_todo" -> get_todo(request, todos, request.at)
      [] request.endpoint = "get_single_todo" ->
            get_single_todo(request, todos, request.at).resp
      [] request.endpoint = "update_todo" -> update_todo(request, todos, request.at).resp
      [] request.endpoint = "delete_todo" -> delete_todo(request, todos, request.at).resp

\* identity cookies of every kind: absent, empty, malformed, forged, and a
\* token of each subject issued at each instant (expired or not at req.at)
IdentityCookies ==
    {None, Some(EmptyStr), Some(<<Text("garbage")>>), Some(Bearer(Forged))}
        \cup {Some(Bearer(encode_jwt(S, T))) : S \in Emails, T \in Instants}

----------------------------------------------------------------------------
(* C1 *)

\* the issue times T at which encode_jwt produces the token of the request
IssueTimes == {T \in Instants : T <= req.at /\ encode_jwt(CarriedJwt.sub, T) = CarriedJwt}

GaveSubject == resp.status = 200 /\ resp.body = Some([email |-> CarriedJwt.sub])
SaidExpired == resp.status = 401 /\ resp.detail = "The JWT has expired"

\* C1 as stated: for every subject S and issue time T, the token of
\* encode_jwt(S) at T verifies to S at every time <= T + 5 min (that instant
\* included) and fails with "The JWT has expired" at every time after it.
C1_ExactFiveMinutes ==
    (Served({"get_user_refresh_jwt"}) /\ CarriesJwt /\ CarriedJwt.key = JWT_KEY) =>
        \A T \in IssueTimes :
            /\ req.at <= T + 300 * TicksPerSec => GaveSubject
            /\ req.at > T + 300 * TicksPerSec => SaidExpired

\* C1 as amended: the token issued for S at T verifies to S at every time
\* before the whole second floor(T) + 5 min, and fails with "The JWT has
\* expired" at every time from one second after that second on; within that
\* second the outcome is the one of the installed PyJWT's comparison.
C1_WholeSecondLifetime ==
    (Served({"get_user_refresh_jwt"}) /\ CarriesJwt /\ CarriedJwt.key = JWT_KEY) =>
        \A T \in IssueTimes :
            /\ Seconds(req.at) < Seconds(T) + 300 => GaveSubject
            /\ Seconds(req.at) > Seconds(T) + 300 => SaidExpired
            /\ GaveSubject \/ SaidExpired

\* a request verified a genuine token that had expired, and was refused
C1_Witness ==
    /\ Served({"get_user_refresh_jwt"})
    /\ CarriesJwt /\ CarriedJwt.key = JWT_KEY
    /\ Seconds(req.at) > CarriedJwt.exp
    /\ resp.status = 401 /\ resp.detail = "The JWT has expired"

----------------------------------------------------------------------------
(* C2 *)

\* C2 as stated: every rotation returns a token for the same subject whose
\* expiry is strictly later than the expiry of the token it was given.
C2_StrictlyLater ==
    (Served(RotatingEndpoints) /\ minted # None) =>
        /\ minted[1].sub = CarriedJwt.sub
        /\ minted[1].exp > CarriedJwt.exp

\* C2 as amended: every rotation returns a token for the same subject whose
\* expiry is not earlier than the expiry of the token it was given; it is
\* strictly later exactly when the rotation happens in a later clock second
\* than the one the given token was issued in.
C2_NeverEarlier ==
    (Served(RotatingEndpoints) /\ minted # None) =>
        /\ minted[1].sub = CarriedJwt.sub
        /\ minted[1].exp >= CarriedJwt.exp
        /\ (minted[1].exp > CarriedJwt.exp) <=> (Seconds(req.at) > CarriedJwt.iat)

\* a rotation in the very second its input token was issued in
C2_Witness ==
    /\ Served({"get_user_refresh_jwt"}) /\ minted # None
    /\ Seconds(req.at) = CarriedJwt.iat
    /\ minted[1].exp = CarriedJwt.exp

----------------------------------------------------------------------------
(* C3 *)

\* the two halves /api/csrftoken hands out together
Consistent(header, cookie) ==
    \E n \in CsrfNonces : header = Plain(n) /\ cookie = Signed(n, CSRF_KEY)

\* C3 as stated: CSRF validation passes iff the header half and the cookie
\* half are both present and consistent; a missing half gives CsrfMissing, a
\* half that does not fit the other gives CsrfInvalid.
C3_BothHalves ==
    Served({"signup", "login", "logout", "create_todo"}) =>
        LET header == req.headers.csrf
            cookie == req.cookies.csrf
        IN  IF header = None \/ cookie = None
            THEN resp.status = 401 /\ resp.detail = "CsrfMissing"
            ELSE IF ~Consistent(header[1], cookie[1])
            THEN resp.status = 401 /\ resp.detail = "CsrfInvalid"
            ELSE resp.detail \notin {"CsrfMissing", "CsrfInvalid"}

----------------------------------------------------------------------------
(* C4 *)

\* C4: a state-mutating request that fails CSRF validation gets the same
\* response (status, detail, body, cookies) whatever its identity cookie is.
C4_CsrfFailureHidesSession ==
    (Served(CsrfProtected) /\ ~CsrfPassed) =>
        \A c \in IdentityCookies :
            respond([req EXCEPT !.cookies.access_token = c],
                    before.collection_user, before.collection_todo, next_oid) = resp

\* a request with a valid identity token was refused for its CSRF header
C4_Witness ==
    /\ Served({"create_todo"})
    /\ ~CsrfPassed /\ IdentityPassed
    /\ resp.status = 401 /\ resp.detail \in {"CsrfMissing", "CsrfInvalid"}

----------------------------------------------------------------------------
(* C5 *)

\* C5 as stated: a rotation issues a new token only in a request that has
\* passed both CSRF validation and identity verification.
C5_RotationNeedsBoth ==
    (Served(RotatingEndpoints) /\ minted # None) => CsrfPassed /\ IdentityPassed

\* C5 as amended: a rotation issues a new token only in a request that has
\* passed identity verification, and in a handler that rotates with
\* verify_csrf_update_jwt only if it has passed CSRF validation before; the
\* handlers that rotate with verify_update_jwt (GET /api/user, GET
\* /api/todo/{id}) mint after the identity check alone.
C5_RotationNeedsIdentity ==
    (Served(RotatingEndpoints) /\ minted # None) =>
        /\ IdentityPassed
        /\ req.endpoint \notin {"get_user_refresh_jwt", "get_single_todo"} => CsrfPassed

\* create_todo rotated the token of a request that passed both checks
C5_Witness ==
    /\ Served({"create_todo"}) /\ minted # None
    /\ CsrfPassed /\ IdentityPassed

----------------------------------------------------------------------------
(* C6 *)

\* C6: a create, update or delete request that fails CSRF validation or
\* identity verification leaves the stores as they were and sets no
\* access_token cookie.
C6_FailedCheckNoEffect ==
    (Served(TodoWriters) /\ (~CsrfPassed \/ ~IdentityPassed)) =>
        /\ StoresUnchanged
        /\ resp.cookies.access_token = None

\* create_todo refused a request that passed CSRF validation but not the
\* identity check
C6_Witness ==
    /\ Served({"create_todo"})
    /\ CsrfPassed /\ ~IdentityPassed
    /\ resp.status = 401

----------------------------------------------------------------------------
(* C7 *)

RecordExists(id, todos) ==
    IsObjectId(id) /\ \E i \in 1..Len(todos) : todos[i]._id = id.hex

\* C7: an update or delete request with a valid CSRF token and an unexpired
\* identity token, for a record that exists, succeeds: the record is updated
\* or deleted and the response carries the rotated token.
C7_UpdateDeleteSucceed ==
    (/\ Served({"update_todo", "delete_todo"})
     /\ CsrfPassed /\ IdentityPassed
     /\ RecordExists(req.id, before.collection_todo)
     /\ req.endpoint = "update_todo" =>
            todo_serializer([_id |-> req.id.hex, title |-> req.data.title,
                             description |-> req.data.description])
              \notin {todo_serializer(before.collection_todo[i]) :
                         i \in 1..Len(before.collection_todo)})
    =>  /\ resp.status = 200
        /\ resp.cookies.access_token # None
        /\ collection_todo # before.collection_todo

----------------------------------------------------------------------------
(* C8 *)

\* C8: a token signed with another secret fails verification with "JWT is
\* not valid", never with "The JWT has expired", expired or not.
C8_ForgedIsInvalid ==
    (/\ \/ Served(VerifyingEndpoints)
        \/ Served({"create_todo"}) /\ CsrfPassed
     /\ CarriesJwt /\ CarriedJwt.key # JWT_KEY)
    =>  /\ resp.status = 401
        /\ resp.detail = "JWT is not valid"

\* a forged token was presented after its expiry time
C8_Witness ==
    /\ Served(VerifyingEndpoints)
    /\ CarriesJwt /\ CarriedJwt.key # JWT_KEY
    /\ Seconds(req.at) > CarriedJwt.exp
    /\ resp.detail = "JWT is not valid"

----------------------------------------------------------------------------
(* C9 *)

Registered(email, users) == \E i \in 1..Len(users) : users[i].email = email

\* C9: for an email not in the store, signup with a password shorter than 6
\* fails with the password error and inserts nothing; with a password of
\* length 6 or more it succeeds and inserts exactly one Credential.
C9_PasswordBoundary ==
    (/\ Served({"signup"}) /\ CsrfPassed
     /\ ~Registered(req.user.email, before.collection_user))
    =>  IF Len(req.user.password) < 6
        THEN /\ resp.status = 400
             /\ resp.detail = "Password too short or Password is too short"
             /\ StoresUnchanged
        ELSE /\ resp.status = 200
             /\ resp.body[1].email = req.user.email
             /\ Len(collection_user) = Len(before.collection_user) + 1
             /\ SubSeq(collection_user, 1, Len(before.collection_user))
                    = before.collection_user
             /\ collection_user[Len(collection_user)].email = req.user.email
             /\ verify_pw(req.user.password,
                          collection_user[Len(collection_user)].password)

\* a signup with a password of exactly 6 characters succeeded
C9_Witness ==
    /\ Served({"signup"}) /\ CsrfPassed
    /\ ~Registered(req.user.email, before.collection_user)
    /\ Len(req.user.password) = 6
    /\ resp.status = 200
    /\ Len(collection_user) = 1

----------------------------------------------------------------------------
(* C10 *)

\* C10: signup with an email that already has a Credential fails with the
\* email error for every password and leaves the store unchanged.
C10_EmailTaken ==
    (/\ Served({"signup"}) /\ CsrfPassed
     /\ Registered(req.user.email, before.collection_user))
    =>  /\ resp.status = 400
        /\ resp.detail = "Email is already taken or Password is too short"
        /\ resp.cookies = NoCookies
        /\ StoresUnchanged

\* a signup for a registered email with another, acceptable password was refused
C10_Witness ==
    /\ Served({"signup"}) /\ CsrfPassed
    /\ Registered(req.user.email, before.collection_user)
    /\ Len(req.user.password) >= 6
    /\ ~verify_pw(req.user.password, before.collection_user[1].password)
    /\ resp.status = 400

----------------------------------------------------------------------------
(* The database coroutines, await by await.  Every handler is a coroutine  *)
(* of the event loop, one per request: at each `await` of a collection     *)
(* method the coroutines of other requests may run.  A call is a function  *)
(* of database.py, its arguments, the await it stands at and its locals;   *)
(* one step is the collection method it awaits and the code up to the next *)
(* await.                                                                  *)

MaxCalls == 2

SignupInputs == [email : Emails, password : {Password(5), Password(6)}]

Call(fn, id, data) ==
    [fn |-> fn, id |-> id, data |-> data, pc |-> "find_one", local |-> None,
     returned |-> None]

Return(call, res) == [call EXCEPT !.pc = "done", !.returned = Some(res)]

At(i, fn, pc) == i \in DOMAIN calls /\ calls[i].fn = fn /\ calls[i].pc = pc

Returned(i) == i \in DOMAIN calls /\ calls[i].pc = "done"

HandlerState == <<now, expInclusive, jar, req, before, minted, resp, kept>>

\* db_signup from its start to `await collection_user.insert_one`
db_signup_find_one(call, users) ==
    LET overlap_user == find_one(users, "email", call.data.email) IN
    IF overlap_user # None
    THEN Return(call, Raise(400, "Email is already taken or Password is too short"))
    ELSE IF PasswordRejected(call.data.password)
    THEN Return(call, Raise(400, "Password too short or Password is too short"))
    ELSE [call EXCEPT !.pc = "insert_one"]

\* the document insert_one adds, under a fresh _id
db_signup_insert_one(call, users, salt) ==
    [_id |-> Len(users) + 1, email |-> call.data.email,
     password |-> generate_hashed_pw(call.data.password, salt)]

\* db_signup from the result of insert_one to its return
db_signup_find_new(call, users) ==
    LET new_user == find_one(users, "_id", call.local[1])
    IN  Return(call, [ok |-> TRUE, value |-> user_serializer(new_user[1])])

\* a signup request has passed its CSRF check and calls db_signup
CallSignup ==
    /\ Len(calls) < MaxCalls
    /\ \E data \in SignupInputs :
           calls' = Append(calls, Call("db_signup", NoId, data))
    /\ UNCHANGED <<collection_user, collection_todo, next_oid, HandlerState>>

SignupFindOne ==
    \E i \in DOMAIN calls :
        /\ At(i, "db_signup", "find_one")
        /\ calls' = [calls EXCEPT ![i] = db_signup_find_one(calls[i], collection_user)]
        /\ UNCHANGED <<collection_user, collection_todo, next_oid, HandlerState>>

SignupInsertOne ==
    \E i \in DOMAIN calls, salt \in Salts :
        LET doc == db_signup_insert_one(calls[i], collection_user, salt) IN
        /\ At(i, "db_signup", "insert_one")
        /\ collection_user' = Append(collection_user, doc)
        /\ calls' = [calls EXCEPT ![i].pc = "find_new", ![i].local = Some(doc._id)]
        /\ UNCHANGED <<collection_todo, next_oid, HandlerState>>

SignupFindNew ==
    \E i \in DOMAIN calls :
        /\ At(i, "db_signup", "find_new")
        /\ calls' = [calls EXCEPT ![i] = db_signup_find_new(calls[i], collection_user)]
        /\ UNCHANGED <<collection_user, collection_todo, next_oid, HandlerState>>

NextSignup ==
    \/ CallSignup
    \/ SignupFindOne
    \/ SignupInsertOne
    \/ SignupFindNew

SpecSignup == Init /\ [][NextSignup]_vars

\* C11: in every reachable state of the credential store, however the
\* lookups and inserts of concurrent signups interleave, no two credentials
\* have the same email
C11_OneCredentialPerEmail ==
    \A i, j \in DOMAIN collection_user :
        collection_user[i].email = collection_user[j].email => i = j

----------------------------------------------------------------------------
(* Login failures *)

InvalidCredentials == ErrorResponse(Raise(401, "Invalid email or password"))

\* the credentials of the login request in flight do not match the store
WrongPassword ==
    \E i \in DOMAIN before.collection_user :
        /\ before.collection_user[i].email = req.user.email
        /\ ~verify_pw(req.user.password, before.collection_user[i].password)

\* the user collection without the account of `email`
Without(email, users) == SelectSeq(users, LAMBDA doc : doc.email # email)

\* C12: a login (past its CSRF check) for an unregistered email and one for
\* a registered email with a wrong password get the same response: 401
\* 'Invalid email or password', no cookie, no token, the stores unchanged;
\* the response is the one the server would give did the account not exist.
C12_LoginFailuresAlike ==
    (/\ Served({"login"}) /\ CsrfPassed
     /\ \/ ~Registered(req.user.email, before.collection_user)
        \/ WrongPassword)
    =>  /\ resp = InvalidCredentials
        /\ resp.cookies = NoCookies
        /\ minted = None
        /\ StoresUnchanged
        /\ resp = login(req, Without(req.user.email, before.collection_user),
                        req.at).resp

\* a login for a registered email with a wrong password was refused
C12_Witness ==
    /\ Served({"login"}) /\ CsrfPassed
    /\ Registered(req.user.email, before.collection_user)
    /\ WrongPassword
    /\ resp.status = 401

----------------------------------------------------------------------------
(* A session whose client keeps a token.  The server holds no session      *)
(* state: whoever has a copy of a token a response carried can present it  *)
(* later, whatever the cookie jar holds by then.  The client copies one    *)
(* token; the endpoints are those of route_auth.py and the task list.      *)

\* the client receives the response, stores its cookies and copies its token
ReceiveAndKeep ==
    /\ ~Idle
    /\ minted # None
    /\ kept = None
    /\ kept' = minted
    /\ jar' = store_cookies(jar, resp)
    /\ req' = NoRequest
    /\ before' = Nothing
    /\ minted' = None
    /\ resp' = NoResponse
    /\ UNCHANGED <<now, expInclusive, collection_user, collection_todo, next_oid,
                   calls>>

NextSession ==
    \/ Tick
    \/ Receive
    \/ ReceiveAndKeep
    \/ GetCsrfToken
    \/ Signup
    \/ Login
    \/ Logout
    \/ GetUserRefreshJwt
    \/ GetTodo

SpecSession == Init /\ [][NextSession]_vars

----------------------------------------------------------------------------
(* The end-to-end scenario *)

ScenarioUser == [email |-> "a@x.com", password |-> Password(7)]

NoSession == ErrorResponse(Raise(401, "JWT doesn't exist: may not set yet or deleted"))

\* the store holds the account of the scenario
ScenarioAccount(users) ==
    \E i \in DOMAIN users :
        /\ users[i].email = ScenarioUser.email
        /\ verify_pw(ScenarioUser.password, users[i].password)

\* the request carries an unexpired token that login or a rotation issued to
\* the scenario's user
CarriesScenarioToken ==
    /\ CarriesJwt /\ CarriedJwt.key = JWT_KEY
    /\ CarriedJwt.sub = ScenarioUser.email
    /\ Seconds(req.at) < CarriedJwt.exp

\* signup of the scenario's user succeeds and returns the account without
\* its password
SignupStep ==
    (/\ Served({"signup"}) /\ CsrfPassed
     /\ req.user = ScenarioUser
     /\ ~Registered(ScenarioUser.email, before.collection_user))
    =>  /\ resp.status = 200
        /\ resp.body # None
        /\ DOMAIN resp.body[1] = {"id", "email"}
        /\ resp.body[1].email = ScenarioUser.email
        /\ ScenarioAccount(collection_user)

\* login with the same credentials sets the identity cookie
LoginStep ==
    (/\ Served({"login"}) /\ CsrfPassed
     /\ req.user = ScenarioUser
     /\ ScenarioAccount(before.collection_user))
    =>  /\ resp.status = 200
        /\ minted # None
        /\ minted[1].sub = ScenarioUser.email
        /\ resp.cookies.access_token = Some(Bearer(minted[1]))

\* /api/user with that cookie returns the subject and replaces the cookie
ReadStep ==
    (Served({"get_user_refresh_jwt"}) /\ CarriesScenarioToken)
    =>  /\ resp.status = 200
        /\ resp.body = Some([email |-> ScenarioUser.email])
        /\ minted # None
        /\ minted[1].sub = ScenarioUser.email
        /\ resp.cookies.access_token = Some(Bearer(minted[1]))

\* logout clears the identity cookie and the CSRF cookie
LogoutStep ==
    (Served({"logout"}) /\ CsrfPassed)
    =>  /\ resp.status = 200
        /\ store_cookies(jar, resp) = [access_token |-> Some(EmptyStr), csrf |-> None]

\* a read with the cleared cookie fails with NoSession
ClearedReadStep ==
    (Served({"get_user_refresh_jwt"}) /\ req.cookies.access_token = Some(EmptyStr))
    =>  resp = NoSession /\ minted = None

----------------------------------------------------------------------------
(* No revocation *)

\* the request presents the token the client kept, before its expiry second
PresentsKept ==
    /\ Served({"get_todo", "get_user_refresh_jwt"})
    /\ kept # None
    /\ req.cookies.access_token = Some(Bearer(kept[1]))
    /\ Seconds(req.at) < kept[1].exp

\* C14: a token that login or a rotation issued is accepted by verify_jwt,
\* and rotated into a fresh token by verify_update_jwt, whenever it is
\* presented before its expiry, whatever happened in the session since it
\* was issued (a logout, rotations that superseded it).
C14_NoRevocation ==
    PresentsKept =>
        /\ IdentityPassed
        /\ resp.status # 401
        /\ req.endpoint = "get_user_refresh_jwt" =>
               /\ resp.status = 200
               /\ resp.body = Some([email |-> kept[1].sub])
               /\ minted = Some(encode_jwt(kept[1].sub, req.at))
               /\ resp.cookies.access_token = Some(Bearer(minted[1]))

\* after a logout emptied the cookie jar, the token kept from before it was
\* presented, accepted and rotated
C14_Witness ==
    /\ PresentsKept
    /\ req.endpoint = "get_user_refresh_jwt"
    /\ jar.access_token = Some(EmptyStr)
    /\ resp.status = 200
    /\ minted # None

\* the token kept was presented and accepted after a rotation had replaced
\* it in the cookie jar by a token issued later
SupersededAccepted ==
    /\ PresentsKept
    /\ jar.access_token # None /\ jar.access_token[1] # EmptyStr
    /\ jar.access_token[1][2].iat > kept[1].iat
    /\ resp.status = 200

----------------------------------------------------------------------------
(* Cookies that carry no token *)

TokenInvalid == ErrorResponse(Raise(401, "JWT is not valid"))

MissingCookie == req.cookies.access_token = None
EmptyCookie == req.cookies.access_token = Some(EmptyStr)

\* a cookie without the "Bearer <token>" shape: nothing follows its first
\* space, or it has none
NoTokenPart ==
    /\ ~MissingCookie /\ ~EmptyCookie
    /\ partition(req.cookies.access_token[1]) = EmptyStr

\* a cookie of the shape "Bearer <token>" whose token part is no JWT
NoJwt ==
    /\ ~MissingCookie /\ ~EmptyCookie /\ ~NoTokenPart
    /\ ~CarriesJwt

\* C15 as stated: verify_jwt answers NoSession to every access_token cookie
\* that is missing, empty or malformed, and nothing else.
C15_MalformedIsNoSession ==
    (Served(VerifyingEndpoints) /\ (MissingCookie \/ EmptyCookie \/ NoTokenPart))
    =>  resp = NoSession

\* C15 as amended: verify_jwt answers NoSession to a missing and to an empty
\* access_token cookie, and TokenInvalid (401 'JWT is not valid') to a
\* malformed one (no token part, or a token part that is no JWT); none of
\* them is answered with another failure or a fault.
C15_MissingIsNoSession ==
    Served(VerifyingEndpoints) =>
        /\ (MissingCookie \/ EmptyCookie) => resp = NoSession
        /\ (NoTokenPart \/ NoJwt) => resp = TokenInvalid
        /\ (MissingCookie \/ EmptyCookie \/ NoTokenPart \/ NoJwt) => minted = None

\* a cookie without a token part was answered with TokenInvalid
C15_Witness ==
    /\ Served({"get_todo"})
    /\ NoTokenPart
    /\ resp = TokenInvalid

----------------------------------------------------------------------------
(* The failure taxonomy *)

Success == {200, 201}
StructuredFailure == {400, 401, 404}

\* C16: every request, whatever its cookies, headers, record id, body and
\* the contents of the stores, ends in success or in a structured failure
\* with status 401, 400 or 404; none ends in an unhandled fault.
C16_StructuredOutcome ==
    ~Idle => resp.status \in Success \cup StructuredFailure

\* the same for the endpoints other than update_todo and delete_todo, which
\* GET /api/todo/{id} with an id that is no ObjectId violates as well
C16_OtherEndpoints ==
    (~Idle /\ req.endpoint \notin {"update_todo", "delete_todo"}) =>
        resp.status \in Success \cup StructuredFailure

----------------------------------------------------------------------------
(* The session of a client: Unauthenticated (no cookie), Authenticated,    *)
(* Expired, LoggedOut (the empty cookie)                                   *)

TokenExpired == ErrorResponse(Raise(401, "The JWT has expired"))

TakesIdentity == VerifyingEndpoints \cup TodoWriters

\* the request in flight is refused for its expired token: no subject, no
\* new token
Refused ==
    /\ minted = None
    /\ resp.status \notin Success
    /\ req.endpoint \in VerifyingEndpoints => resp = TokenExpired
    /\ req.endpoint = "create_todo" => resp.status = 401

\* the jar holds a token (the responses put nothing else but "" into it)
HoldsToken(cookies) ==
    cookies.access_token # None /\ cookies.access_token[1] # EmptyStr

Authenticated(cookies, t) ==
    HoldsToken(cookies) /\ Seconds(t) <= cookies.access_token[1][2].exp

ReturnsToAuthenticated == ~Authenticated(jar, now) /\ Authenticated(jar', now')

\* C17 as stated: a request carrying a genuine token after its expiry
\* instant yields neither a subject nor a new token.
C17_ExpiredAtExpiry ==
    (/\ Served(TakesIdentity)
     /\ CarriesJwt /\ CarriedJwt.key = JWT_KEY
     /\ req.at > CarriedJwt.exp * TicksPerSec)
    =>  Refused

\* a request carrying a genuine token a full second or more after its
\* expiry is refused
ExpiredRefused ==
    (/\ Served(TakesIdentity)
     /\ CarriesJwt /\ CarriedJwt.key = JWT_KEY
     /\ Seconds(req.at) > CarriedJwt.exp)
    =>  Refused

\* C17 as amended: once the client's current token is a full second past
\* its expiry, no request carrying it yields a subject or a new token, and
\* a client without an unexpired token gets one only from the response of
\* a successful login.
C17_ExpiredNeedsLogin ==
    /\ []ExpiredRefused
    /\ [][ReturnsToAuthenticated => (req.endpoint = "login" /\ resp.status = 200)]_vars

\* the client presented its own, expired token to a rotating endpoint and
\* was refused
C17_Witness ==
    /\ Served({"get_single_todo"})
    /\ HoldsToken(jar)
    /\ req.cookies.access_token = jar.access_token
    /\ Seconds(req.at) > CarriedJwt.exp
    /\ resp = TokenExpired
    /\ minted = None

----------------------------------------------------------------------------
(* The rotated token on the response *)

\* C18: whenever verify_update_jwt or verify_csrf_update_jwt succeeded in a
\* handler (it minted a token), the response overwrites the access_token
\* cookie with "Bearer " + that token, whatever the rest of the handler
\* does, the record being found or not.
C18_RotatedCookieSent ==
    (Served(RotatingEndpoints) /\ minted # None)
    =>  resp.cookies.access_token = Some(Bearer(minted[1]))

\* C18 for the ids that are ObjectIds
C18_RecordNotFound ==
    (Served(RotatingEndpoints) /\ minted # None /\ IsObjectId(req.id))
    =>  resp.cookies.access_token = Some(Bearer(minted[1]))

----------------------------------------------------------------------------
(* The task store called by one caller at a time: every call of a db_*     *)
(* function runs from its start to its return before the next begins.      *)
(* `calls` holds the last MaxCalls calls with what they returned, `before` *)
(* the collections as they were when the last one began.                   *)

TodoObjectIds == {Str(i) : i \in 1..MaxTodos}

\* the call returns res, having turned the todo collection into todos
Complete(fn, id, data, res, todos) ==
    /\ calls' = Append(IF Len(calls) < MaxCalls THEN calls ELSE Tail(calls),
                       Return(Call(fn, id, data), res))
    /\ before' = [collection_user |-> collection_user,
                  collection_todo |-> collection_todo]
    /\ collection_todo' = todos
    /\ UNCHANGED <<now, expInclusive, collection_user, jar, req, minted, resp, kept>>

DbCreateTodo ==
    /\ next_oid <= MaxTodos
    /\ \E data \in TodoBodies :
           LET db == db_create_todo(data, collection_todo, next_oid)
           IN  /\ Complete("db_create_todo", NoId, data, db.res, db.collection)
               /\ next_oid' = next_oid + 1

DbFindTodoById ==
    \E id \in TodoObjectIds :
        LET db == db_find_todo_by_id(id, collection_todo)
        IN  /\ Complete("db_find_todo_by_id", id, NoData, db.res, db.collection)
            /\ UNCHANGED next_oid

DbUpdateTodo ==
    \E id \in TodoObjectIds, data \in TodoBodies :
        LET db == db_update_todo(id, data, collection_todo)
        IN  /\ Complete("db_update_todo", id, data, db.res, db.collection)
            /\ UNCHANGED next_oid

DbDeleteTodo ==
    \E id \in TodoObjectIds :
        LET db == db_delete_todo(id, collection_todo)
        IN  /\ Complete("db_delete_todo", id, NoData, db.res, db.collection)
            /\ UNCHANGED next_oid

NextDb ==
    \/ DbCreateTodo
    \/ DbFindTodoById
    \/ DbUpdateTodo
    \/ DbDeleteTodo

SpecDb == Init /\ [][NextDb]_vars

LastCall == calls[Len(calls)]

\* the record of `id` with `data` applied, as todo_serializer returns it
Applied(id, data) ==
    Value([id |-> Str(id.hex), title |-> data.title, description |-> data.description])

\* the call before the last one was the same update
SameUpdateTwice ==
    /\ Len(calls) >= 2
    /\ calls[Len(calls) - 1].fn = "db_update_todo"
    /\ calls[Len(calls) - 1].id = LastCall.id
    /\ calls[Len(calls) - 1].data = LastCall.data

\* C19: db_update_todo(id, data) returns the stored record with data applied
\* whenever a record of that id exists, for every data, the record's current
\* title and description included, and False only when there is none;
\* the same update applied twice returns what it returned the first time.
C19_UpdateReturnsRecord ==
    (calls # <<>> /\ LastCall.fn = "db_update_todo") =>
        /\ RecordExists(LastCall.id, before.collection_todo) =>
               /\ LastCall.returned = Some(Applied(LastCall.id, LastCall.data))
               /\ RecordExists(LastCall.id, collection_todo)
        /\ ~RecordExists(LastCall.id, before.collection_todo) =>
               LastCall.returned = Some(False)
        /\ SameUpdateTwice =>
               LastCall.returned = calls[Len(calls) - 1].returned

\* C19 for the updates that change the record
C19_ChangingUpdate ==
    (/\ calls # <<>> /\ LastCall.fn = "db_update_todo"
     /\ RecordExists(LastCall.id, before.collection_todo)
     /\ before.collection_todo # collection_todo)
    =>  LastCall.returned = Some(Applied(LastCall.id, LastCall.data))

----------------------------------------------------------------------------
(* db_update_todo and db_delete_todo as coroutines on one record: up to    *)
(* MaxCalls calls for the id of the one stored record, interleaved at      *)
(* their awaits.                                                           *)

\* todo_serializer(None): 'NoneType' object is not subscriptable
TypeError == [kind |-> "TypeError"]

\* db_update_todo from its start to `await collection_todo.update_one`
db_update_todo_find_one(call, todos) ==
    LET todo == find_one(todos, "_id", call.id.hex) IN
    IF todo = None THEN Return(call, False)
    ELSE [call EXCEPT !.pc = "update_one"]

\* the collection after update_one({"_id": ObjectId(id)}, {"$set": data})
update_one(id, data, todos) ==
    [i \in 1..Len(todos) |->
        IF todos[i]._id = id.hex
        THEN [todos[i] EXCEPT !.title = data.title, !.description = data.description]
        ELSE todos[i]]

\* db_update_todo from the result of update_one to the next await or return
db_update_todo_update_one(call, todos) ==
    LET modified_count == IF update_one(call.id, call.data, todos) # todos
                          THEN 1 ELSE 0
    IN  IF modified_count > 0 THEN [call EXCEPT !.pc = "find_new"]
        ELSE Return(call, NoReturn)

\* db_update_todo from its second find_one to its return
db_update_todo_find_new(call, todos) ==
    LET new_todo == find_one(todos, "_id", call.id.hex) IN
    IF new_todo = None THEN Return(call, TypeError)
    ELSE Return(call, Value(todo_serializer(new_todo[1])))

\* db_delete_todo from its start to `await collection_todo.delete_one`
db_delete_todo_find_one(call, todos) ==
    LET todo == find_one(todos, "_id", call.id.hex) IN
    IF todo = None THEN Return(call, False)
    ELSE [call EXCEPT !.pc = "delete_one"]

\* the collection after delete_one({"_id": ObjectId(id)})
delete_one(id, todos) == SelectSeq(todos, LAMBDA d : d._id # id.hex)

\* db_delete_todo from the result of delete_one to its return
db_delete_todo_delete_one(call, todos) ==
    LET deleted_count == Len(todos) - Len(delete_one(call.id, todos))
    IN  IF deleted_count > 0 THEN Return(call, True)
        ELSE Return(call, NoReturn)

\* one task is in the store, created by db_create_todo
InitTodo ==
    /\ now = 0
    /\ expInclusive \in BOOLEAN
    /\ collection_user = <<>>
    /\ \E data \in TodoBodies :
           collection_todo = db_create_todo(data, <<>>, 1).collection
    /\ next_oid = 2
    /\ jar = NoCookies
    /\ req = NoRequest
    /\ before = Nothing
    /\ minted = None
    /\ resp = NoResponse
    /\ kept = None
    /\ calls = <<>>

OtherState == <<collection_user, next_oid, HandlerState>>

CallUpdateTodo ==
    /\ Len(calls) < MaxCalls
    /\ \E data \in TodoBodies :
           calls' = Append(calls, Call("db_update_todo", Str(1), data))
    /\ UNCHANGED <<collection_todo, OtherState>>

CallDeleteTodo ==
    /\ Len(calls) < MaxCalls
    /\ calls' = Append(calls, Call("db_delete_todo", Str(1), NoData))
    /\ UNCHANGED <<collection_todo, OtherState>>

UpdateFindOne ==
    \E i \in DOMAIN calls :
        /\ At(i, "db_update_todo", "find_one")
        /\ calls' = [calls EXCEPT ![i] = db_update_todo_find_one(calls[i], collection_todo)]
        /\ UNCHANGED <<collection_todo, OtherState>>

UpdateUpdateOne ==
    \E i \in DOMAIN calls :
        /\ At(i, "db_update_todo", "update_one")
        /\ calls' = [calls EXCEPT ![i] = db_update_todo_update_one(calls[i], collection_todo)]
        /\ collection_todo' = update_one(calls[i].id, calls[i].data, collection_todo)
        /\ UNCHANGED OtherState

UpdateFindNew ==
    \E i \in DOMAIN calls :
        /\ At(i, "db_update_todo", "find_new")
        /\ calls' = [calls EXCEPT ![i] = db_update_todo_find_new(calls[i], collection_todo)]
        /\ UNCHANGED <<collection_todo, OtherState>>

DeleteFindOne ==
    \E i \in DOMAIN calls :
        /\ At(i, "db_delete_todo", "find_one")
        /\ calls' = [calls EXCEPT ![i] = db_delete_todo_find_one(calls[i], collection_todo)]
        /\ UNCHANGED <<collection_todo, OtherState>>

DeleteDeleteOne ==
    \E i \in DOMAIN calls :
        /\ At(i, "db_delete_todo", "delete_one")
        /\ calls' = [calls EXCEPT ![i] = db_delete_todo_delete_one(calls[i], collection_todo)]
        /\ collection_todo' = delete_one(calls[i].id, collection_todo)
        /\ UNCHANGED OtherState

NextTodo ==
    \/ CallUpdateTodo
    \/ CallDeleteTodo
    \/ UpdateFindOne
    \/ UpdateUpdateOne
    \/ UpdateFindNew
    \/ DeleteFindOne
    \/ DeleteDeleteOne

SpecTodo == InitTodo /\ [][NextTodo]_vars

\* what a handler takes for "not found": False, and the None of a function
\* that falls off its end
NotFoundSignal == {False, NoReturn}

\* C20: however concurrent db_update_todo and db_delete_todo calls on one
\* record id interleave at their awaits, every call returns its success
\* value (the record, or True) or the not-found signal; none serializes a
\* record that disappeared between its steps or faults in another way, and
\* a record reported deleted is absent from the store.
C20_EveryCallReturnsASignal ==
    \A i \in DOMAIN calls :
        Returned(i) =>
            /\ \/ calls[i].returned[1].kind \in {"value", "True"}
               \/ calls[i].returned[1] \in NotFoundSignal
            /\ calls[i].returned[1] = True => ~RecordExists(calls[i].id, collection_todo)

\* the part of C20 about deletion alone
DeletedIsAbsent ==
    \A i \in DOMAIN calls :
        (Returned(i) /\ calls[i].returned[1] = True)
            => ~RecordExists(calls[i].id, collection_todo)

====
